---- MODULE Spec2Model ----
(***************************************************************************)
(* Model of pyrosimple/scripts/base.py: the command line harness           *)
(* (ScriptBase.run and its steps) and the connection alias lookups of      *)
(* ScriptBaseWithConfig.                                                   *)
(***************************************************************************)
EXTENDS Integers, Sequences, FiniteSets, TLC

\* ------------------------------------------------------------- bounds
\* longest command line (number of tokens after the program name)
MaxArgs == 2
\* largest return code a subcommand sets
MaxReturnCode == 2
\* longest list stored under one connection alias
MaxListLen == 2

\* ---------------------------------------------------- program constants
\* logging levels (logging.DEBUG, INFO, WARNING, CRITICAL)
DEBUG == 10
INFO == 20
WARNING == 30
CRITICAL == 50
\* log level for user-visible standard logging
STD_LOG_LEVEL == INFO
\* exit codes of pyrosimple.error, and the ones the argument parser uses
EX_USAGE_ARGPARSE == 2
EX_SOFTWARE == 70
EX_IOERR == 74
EX_TEMPFAIL == 75
\* errno.EPIPE, "[Errno 32] Broken pipe"
EPIPE == 32
\* some other errno values an OSError can carry (ENOENT, EACCES)
OtherErrnos == {2, 13}

\* Python's None, as an option value and as an errno / exit code
NoneStr == "<None>"
NoneInt == -1

\* ------------------------------------------------------------ helpers
RECURSIVE Count(_, _)
Count(seq, x) ==
    IF seq = <<>> THEN 0
    ELSE (IF Head(seq) = x THEN 1 ELSE 0) + Count(Tail(seq), x)

SeqsUpTo(S, n) == UNION {[1..k -> S] : k \in 0..n}

\* first position of x in seq, 0 when absent
RECURSIVE IndexFrom(_, _, _)
IndexFrom(seq, x, i) ==
    IF i > Len(seq) THEN 0
    ELSE IF seq[i] = x THEN i ELSE IndexFrom(seq, x, i + 1)
Index(seq, x) == IndexFrom(seq, x, 1)

\* ------------------------------------------------- the command line
\* The tokens a command line is made of: the three logging flags of
\* get_options, --version of __init__, -U/--url of ScriptBaseWithConfig
\* (with an empty and a non-empty value), a flag nobody registered, and a
\* positional argument.
UrlGiven == "scgi://other:5000"
UrlConfigured == "scgi://localhost:5000"
TokQuiet == "--quiet"
TokDebug == "--debug"
TokVerbose == "--verbose"
TokVersion == "--version"
TokUrl == "--url=scgi://other:5000"
TokUrlEmpty == "--url="
TokUnknown == "--bogus"
TokPositional == "target"
Tokens ==
    {TokQuiet, TokDebug, TokVerbose, TokVersion, TokUrl, TokUrlEmpty,
     TokUnknown, TokPositional}
LevelTokens == {TokQuiet, TokDebug, TokVerbose}

\* the consts of --debug and --verbose exchanged
LevelOfSwapped(tok) ==
    CASE tok = TokQuiet -> CRITICAL
      [] tok = TokDebug -> INFO
      [] tok = TokVerbose -> DEBUG

\* const= of the three store_const flags sharing dest="log_level"
LevelOf(tok) ==
    CASE tok = TokQuiet -> CRITICAL
      [] tok = TokDebug -> DEBUG
      [] tok = TokVerbose -> INFO

UrlOf(tok) == IF tok = TokUrl THEN UrlGiven ELSE ""

\* The options record before any token was read: every dest at its default.
\* ScriptBase registers no --url: the token is then an unrecognized argument.
EmptyNamespace ==
    [log_level |-> NoneInt, url |-> NoneStr, args |-> <<>>, extras |-> <<>>]

\* ArgumentParser.parse_args on the registered arguments: the tokens are
\* consumed left to right, each store_const overwriting log_level, the
\* version action ending the process (exit 0) where it is reached;
\* unrecognized arguments are collected and reported (exit 2) only after the
\* whole command line was consumed.
RECURSIVE ParseFrom(_, _, _, _)
ParseFrom(args, i, ns, withUrl) ==
    IF i > Len(args)
    THEN IF ns.extras # <<>>
         THEN [outcome |-> "error", ns |-> ns]
         ELSE [outcome |-> "ok", ns |-> ns]
    ELSE LET tok == args[i] IN
         CASE tok = TokVersion -> [outcome |-> "version", ns |-> ns]
           [] tok \in LevelTokens ->
                ParseFrom(args, i + 1, [ns EXCEPT !.log_level = LevelOf(tok)], withUrl)
           [] tok \in {TokUrl, TokUrlEmpty} /\ withUrl ->
                ParseFrom(args, i + 1, [ns EXCEPT !.url = UrlOf(tok)], withUrl)
           [] tok = TokPositional ->
                ParseFrom(args, i + 1, [ns EXCEPT !.args = Append(@, tok)], withUrl)
           [] OTHER ->
                ParseFrom(args, i + 1, [ns EXCEPT !.extras = Append(@, tok)], withUrl)

\* a parser whose --version only stores a flag instead of ending the run
NotVersion(tok) == tok # TokVersion
ParseArgsVersionStored(args, withUrl) ==
    ParseFrom(SelectSeq(args, NotVersion), 1, EmptyNamespace, withUrl)

\* a parser that tolerates unrecognized arguments (parse_known_args)
ParseArgsKnown(args, withUrl) ==
    LET r == ParseFrom(args, 1, EmptyNamespace, withUrl) IN
    IF r.outcome = "error" THEN [outcome |-> "ok", ns |-> r.ns] ELSE r

\* a parser with the three logging flags in a mutually exclusive group
ParseArgsExclusive(args, withUrl) ==
    LET r == ParseFrom(args, 1, EmptyNamespace, withUrl)
        given == {args[i] : i \in 1..Len(args)} \cap LevelTokens
    IN IF r.outcome = "ok" /\ Cardinality(given) > 1
       THEN [outcome |-> "error", ns |-> r.ns]
       ELSE r

ParseArgs(args, withUrl) == ParseFrom(args, 1, EmptyNamespace, withUrl)

\* Python truthiness of an option value
TruthyInt(v) == v # NoneInt /\ v # 0
TruthyStr(v) == v # NoneStr /\ v # ""

\* Logger.isEnabledFor(level) under the process-wide threshold
IsEnabledFor(level, thr) == level >= thr

\* ----------------------------------------------------------- exceptions
NoExc == [type |-> "none", errno |-> NoneInt, code |-> NoneInt]
SystemExit(c) == [type |-> "SystemExit", errno |-> NoneInt, code |-> c]
LoggableError == [type |-> "LoggableError", errno |-> NoneInt, code |-> NoneInt]
KeyboardInterrupt == [type |-> "KeyboardInterrupt", errno |-> NoneInt, code |-> NoneInt]
OSError(e) == [type |-> "OSError", errno |-> e, code |-> NoneInt]
OtherException == [type |-> "Exception", errno |-> NoneInt, code |-> NoneInt]

\* what a step that calls out of the harness (configuration loading, engine
\* construction, the subcommand's mainloop) can raise
Raisable ==
    {LoggableError, KeyboardInterrupt, OtherException, OSError(EPIPE),
     SystemExit(EX_SOFTWARE)}
        \cup {OSError(e) : e \in OtherErrnos}

\* -------------------------------------------------------------- state
VARIABLES
    withConfig,   \* the tool's class: TRUE for ScriptBaseWithConfig
    argv,         \* the command line
    pc,           \* position inside run()
    options,      \* self.options: [parsed |-> FALSE] stands for None
    threshold,    \* level of the root logger
    return_code,  \* self.return_code
    engine,       \* self.engine: "None" or "RtorrentEngine"
    scgi_url,     \* config.settings["SCGI_URL"]
    exc,          \* the exception in flight
    raised,       \* the exception the try body raised, and the step it left
    status,       \* "running", "exited" (sys.exit), "raised", "returned"
    exit_code,    \* the code of sys.exit
    steps,        \* the steps of run() executed so far, in order
    out,          \* what was printed or logged, in order
    connections,  \* config.settings["CONNECTIONS"]
    url,          \* the argument of a lookup
    looked,       \* the result of lookup_connection_alias
    lpc,          \* position of the lookup: "idle", "call", "done"
    val,          \* multi_connection_lookup: the value found for url
    yielded,      \* multi_connection_lookup: what the generator yielded
    lookups,      \* calls of lookup_connection_alias the generator made
    mpc,          \* position of the generator: "idle", "get", "list",
                  \* "single", "done"
    call,         \* add_value_option: the arguments of the call
    registered,   \* add_value_option: what parser.add_argument received
    opc,          \* position of add_value_option: "idle", "call",
                  \* "done", "raised"
    fatal_call    \* the call of fatal() the subcommand made, if any

runVars ==
    <<withConfig, argv, pc, options, threshold, return_code, engine, scgi_url,
      exc, raised, status, exit_code, steps, out>>
lookupVars == <<connections, url, looked, lpc>>
multiVars == <<val, yielded, lookups, mpc>>
optionVars == <<call, registered, opc>>
\* everything a run does not touch
toolVars == <<lookupVars, multiVars, optionVars>>
vars == <<runVars, fatal_call, toolVars>>

NoRaise == [exc |-> NoExc, at |-> "none"]
NoOptions == [parsed |-> FALSE, log_level |-> NoneInt, url |-> NoneStr, args |-> <<>>]
LogLevels == {DEBUG, INFO, WARNING, CRITICAL}

\* ----------------------------------------------------------------- Init
\* ScriptBase.__init__: no options, return code 0, no engine.  The command
\* line, the tool's class and the logging threshold the process starts with
\* (setup() asks for WARNING) are the inputs of a run.
InitRun ==
    /\ withConfig \in BOOLEAN
    /\ argv \in SeqsUpTo(Tokens, MaxArgs)
    /\ pc = "get_options"
    /\ options = NoOptions
    /\ threshold \in LogLevels
    /\ return_code = 0
    /\ engine = "None"
    /\ scgi_url = UrlConfigured
    /\ exc = NoExc
    /\ raised = NoRaise
    /\ status = "running"
    /\ exit_code = NoneInt
    /\ steps = <<>>
    /\ out = <<>>

IdleLookup ==
    /\ connections = <<>>
    /\ url = ""
    /\ looked = ""
    /\ lpc = "idle"

\* no generator of multi_connection_lookup is running
IdleMulti ==
    /\ val = <<>>
    /\ yielded = <<>>
    /\ lookups = 0
    /\ mpc = "idle"

\* no add_value_option call is under way
IdleOption ==
    /\ call = <<>>
    /\ registered = <<>>
    /\ opc = "idle"

\* fatal() was not called
NoFatal == [called |-> FALSE, with_exc |-> FALSE, outcome |-> "none"]

Init == InitRun /\ fatal_call = NoFatal /\ IdleLookup /\ IdleMulti /\ IdleOption

\* an exception leaves the try body: control moves to the except clauses
Raise(e) ==
    /\ exc' = e
    /\ raised' = [exc |-> e, at |-> pc]
    /\ pc' = "except"

\* ------------------------------------------------------- ScriptBase.run
\* ScriptBase.get_options: register the flags, parse, set the threshold,
\* log the options at debug level.  --version and a parser error leave by
\* SystemExit from inside parse_args, before self.options is assigned.
GetOptions ==
    /\ pc = "get_options"
    /\ LET r == ParseArgs(argv, withConfig) IN
       CASE r.outcome = "version" ->
              /\ out' = Append(out, "version")
              /\ steps' = Append(steps, "parse_version")
              /\ Raise(SystemExit(0))
              /\ UNCHANGED <<options, threshold>>
         [] r.outcome = "error" ->
              /\ out' = Append(out, "usage")
              /\ steps' = Append(steps, "parse_error")
              /\ Raise(SystemExit(EX_USAGE_ARGPARSE))
              /\ UNCHANGED <<options, threshold>>
         [] OTHER ->
              LET thr == IF TruthyInt(r.ns.log_level) THEN r.ns.log_level
                         ELSE threshold
              IN
              /\ options' = [parsed |-> TRUE, log_level |-> r.ns.log_level,
                             url |-> r.ns.url, args |-> r.ns.args]
              /\ threshold' = thr
              /\ out' = IF IsEnabledFor(DEBUG, thr)
                        THEN Append(out, "Options:") ELSE out
              /\ steps' = Append(steps, "parse")
              /\ pc' = IF withConfig THEN "url" ELSE "mainloop"
              /\ UNCHANGED <<exc, raised>>
    /\ UNCHANGED <<withConfig, argv, return_code, engine, scgi_url, status,
                   exit_code, fatal_call,
                   toolVars>>

\* ScriptBaseWithConfig.get_options, after super().get_options():
\* a truthy --url replaces the configured endpoint
ApplyUrlIf(given) ==
    /\ pc = "url"
    /\ scgi_url' = IF given THEN options.url ELSE scgi_url
    /\ steps' = Append(steps, "url")
    /\ pc' = "config"
    /\ UNCHANGED <<withConfig, argv, options, threshold, return_code, engine,
                   exc, raised, status, exit_code, out, fatal_call,
                   toolVars>>

ApplyUrlNever == ApplyUrlIf(FALSE)

ApplyUrl == ApplyUrlIf(TruthyStr(options.url))

\* config.load_custom_py(): returns, and control goes on to the next
\* statement, or raises.  The script it loads is the user's; the harness
\* itself assigns SCGI_URL nowhere else.
LoadCustomPyThen(next) ==
    /\ pc = "config"
    /\ steps' = Append(steps, "config")
    /\ \/ pc' = next /\ UNCHANGED <<exc, raised>>
       \/ \E e \in Raisable : Raise(e)
    /\ UNCHANGED <<withConfig, argv, options, threshold, return_code, engine,
                   scgi_url, status, exit_code, out, fatal_call,
                   toolVars>>

LoadCustomPySkipsEngine == LoadCustomPyThen("mainloop")

LoadCustomPy == LoadCustomPyThen("engine")

\* self.engine = rtorrent.RtorrentEngine(): returns, or raises
ConstructEngine ==
    /\ pc = "engine"
    /\ steps' = Append(steps, "engine")
    /\ \/ pc' = "mainloop" /\ UNCHANGED <<exc, raised>> /\ engine' = "RtorrentEngine"
       \/ \E e \in Raisable : Raise(e) /\ engine' = engine
    /\ UNCHANGED <<withConfig, argv, options, threshold, return_code,
                   scgi_url, status, exit_code, out, fatal_call,
                   toolVars>>

\* self.mainloop(), the subcommand: it may set self.return_code, and it
\* returns or raises
Mainloop ==
    /\ pc = "mainloop"
    /\ steps' = Append(steps, "mainloop")
    /\ \E rc \in 0..MaxReturnCode :
         /\ return_code' = rc
         /\ \/ pc' = "finally" /\ UNCHANGED <<exc, raised>>
            \/ \E e \in Raisable : Raise(e)
    /\ UNCHANGED <<withConfig, argv, options, threshold, engine, scgi_url,
                   status, exit_code, out, fatal_call,
                   toolVars>>

\* a fatal() that returns whenever debug logging is on, exception or not
fatalReturnsOnDebug(with_exc, thr) ==
    [logged |-> IsEnabledFor(CRITICAL, thr),
     returns |-> IsEnabledFor(DEBUG, thr)]

\* ScriptBase.fatal(msg, exc): the message is logged at critical level;
\* with an exception passed and debug logging enabled it returns ("let the
\* caller re-raise it"), in every other case it calls
\* sys.exit(error.EX_SOFTWARE)
fatal(with_exc, thr) ==
    [logged |-> IsEnabledFor(CRITICAL, thr),
     returns |-> with_exc /\ IsEnabledFor(DEBUG, thr)]

\* the exceptions a subcommand catches and hands to fatal()
Reportable == {LoggableError, OtherException} \cup {OSError(e) : e \in OtherErrnos}

\* a subcommand that meets a fatal error: it calls self.fatal(msg) or
\* self.fatal(msg, e); when fatal() returns, it raises e again
MainloopFatal ==
    /\ pc = "mainloop"
    /\ \E e \in {NoExc} \cup Reportable :
         LET r == fatal(e # NoExc, threshold) IN
         /\ out' = IF r.logged THEN Append(out, "FATAL") ELSE out
         /\ fatal_call' = [called |-> TRUE, with_exc |-> e # NoExc,
                           outcome |-> IF r.returns THEN "returned" ELSE "exit"]
         /\ Raise(IF r.returns THEN e ELSE SystemExit(EX_SOFTWARE))
    /\ steps' = steps \o <<"mainloop", "fatal">>
    /\ UNCHANGED <<withConfig, argv, options, threshold, return_code, engine,
                   scgi_url, status, exit_code, toolVars>>

\* except error.LoggableError: print(traceback.format_exc()), then
\* sys.exit(code)
CatchLoggableError(showTrace, code) ==
    /\ pc = "except"
    /\ exc.type = "LoggableError"
    /\ out' = IF showTrace THEN Append(out, "traceback") ELSE out
    /\ steps' = Append(steps, "except LoggableError")
    /\ exc' = SystemExit(code)
    /\ pc' = "finally"
    /\ UNCHANGED <<withConfig, argv, options, threshold, return_code, engine,
                   scgi_url, raised, status, exit_code, fatal_call,
                   toolVars>>

ExceptLoggableErrorQuiet == CatchLoggableError(FALSE, EX_SOFTWARE)

ExceptLoggableError == CatchLoggableError(TRUE, EX_SOFTWARE)

\* except KeyboardInterrupt: print() an empty line, the notice at critical
\* level, then sys.exit(code)
CatchKeyboardInterrupt(code) ==
    /\ pc = "except"
    /\ exc.type = "KeyboardInterrupt"
    /\ out' = IF IsEnabledFor(CRITICAL, threshold)
              THEN out \o <<"", "Aborted by CTRL-C!">>
              ELSE Append(out, "")
    /\ steps' = Append(steps, "except KeyboardInterrupt")
    /\ exc' = SystemExit(code)
    /\ pc' = "finally"
    /\ UNCHANGED <<withConfig, argv, options, threshold, return_code, engine,
                   scgi_url, raised, status, exit_code, fatal_call,
                   toolVars>>

ExceptKeyboardInterruptAsSoftware == CatchKeyboardInterrupt(EX_SOFTWARE)

ExceptKeyboardInterrupt == CatchKeyboardInterrupt(EX_TEMPFAIL)

\* except OSError as exc: when the errno test says broken pipe, a notice on
\* stderr and sys.exit(EX_IOERR); otherwise a bare raise of the same error
CatchOSError(brokenPipe) ==
    /\ pc = "except"
    /\ exc.type = "OSError"
    /\ steps' = Append(steps, "except OSError")
    /\ IF brokenPipe
       THEN /\ out' = Append(out, "Broken pipe, exiting!")
            /\ exc' = SystemExit(EX_IOERR)
       ELSE /\ out' = out
            /\ exc' = exc
    /\ pc' = "finally"
    /\ UNCHANGED <<withConfig, argv, options, threshold, return_code, engine,
                   scgi_url, raised, status, exit_code, fatal_call,
                   toolVars>>

ExceptOSErrorAlwaysRaises == CatchOSError(FALSE)

ExceptOSErrorAlwaysExits == CatchOSError(TRUE)

ExceptOSError == CatchOSError(exc.errno = EPIPE)

\* no except clause matches (SystemExit, any other exception): the
\* exception passes through the inner try unchanged
NoExceptClause ==
    /\ pc = "except"
    /\ exc.type \notin {"LoggableError", "KeyboardInterrupt", "OSError"}
    /\ pc' = "finally"
    /\ UNCHANGED <<withConfig, argv, options, threshold, return_code, engine,
                   scgi_url, exc, raised, status, exit_code, steps, out,
                   fatal_call,
                   toolVars>>

\* finally: when logTotal, self.LOG.log(STD_LOG_LEVEL, "Total time: ..."),
\* a line only if the threshold lets that level through; then, when
\* shutdown, logging.shutdown().  An exception in flight then leaves run().
FinallyBlock(logTotal, shutdown) ==
    /\ pc = "finally"
    /\ out' = IF logTotal /\ IsEnabledFor(STD_LOG_LEVEL, threshold)
              THEN Append(out, "Total time:") ELSE out
    /\ steps' = (IF logTotal THEN Append(steps, "log_total") ELSE steps)
                \o (IF shutdown THEN <<"shutdown">> ELSE <<>>)
    /\ CASE exc.type = "none" ->
              /\ pc' = "return_code"
              /\ UNCHANGED <<status, exit_code>>
         [] exc.type = "SystemExit" ->
              /\ pc' = "done"
              /\ status' = "exited"
              /\ exit_code' = exc.code
         [] OTHER ->
              /\ pc' = "done"
              /\ status' = "raised"
              /\ exit_code' = exit_code
    /\ UNCHANGED <<withConfig, argv, options, threshold, return_code, engine,
                   scgi_url, exc, raised, fatal_call,
                   toolVars>>

FinallyLogsAlways == FinallyBlock(TRUE, TRUE)

FinallyOnlyOnReturn == FinallyBlock(options.parsed, exc.type = "none")

\* log_total is True throughout run(); self.options is None until parsed
Finally == FinallyBlock(TRUE /\ options.parsed, TRUE)

\* if self.return_code: sys.exit(self.return_code); else run() returns and
\* the process ends with 0
ReturnCodeExit(rc) ==
    /\ pc = "return_code"
    /\ pc' = "done"
    /\ steps' = Append(steps, "return_code")
    /\ IF rc # 0
       THEN status' = "exited" /\ exit_code' = rc
       ELSE status' = "returned" /\ exit_code' = 0
    /\ UNCHANGED <<withConfig, argv, options, threshold, return_code, engine,
                   scgi_url, exc, raised, out, fatal_call,
                   toolVars>>

SpecialExitIgnored == ReturnCodeExit(0)

SpecialExit == ReturnCodeExit(return_code)

Next ==
    \/ GetOptions
    \/ ApplyUrl
    \/ LoadCustomPy
    \/ ConstructEngine
    \/ Mainloop
    \/ MainloopFatal
    \/ ExceptLoggableError
    \/ ExceptKeyboardInterrupt
    \/ ExceptOSError
    \/ NoExceptClause
    \/ Finally
    \/ SpecialExit

Spec == Init /\ [][Next]_vars

\* ------------------------------------------- connection alias lookups
\* The strings a lookup is made of: alias names and endpoints.
Names == {"home", "seedbox", "10.0.0.1:80"}
\* the names configuration may define as aliases
AliasNames == {"home", "seedbox"}

\* A value of config.settings["CONNECTIONS"]: one string, or a list of
\* strings.
StrVal(x) == [kind |-> "str", str |-> x, list |-> <<>>]
ListVal(l) == [kind |-> "list", str |-> "", list |-> l]
Values ==
    {StrVal(x) : x \in Names} \cup {ListVal(l) : l \in SeqsUpTo(Names, MaxListLen)}
Tables == UNION {[D -> Values] : D \in SUBSET AliasNames}

\* repr() of a list of strings: "['a', 'b']"
RECURSIVE ReprItems(_)
ReprItems(l) ==
    IF l = <<>> THEN ""
    ELSE IF Len(l) = 1 THEN "'" \o Head(l) \o "'"
    ELSE "'" \o Head(l) \o "', " \o ReprItems(Tail(l))

\* str(value): a string is itself, a list is its repr
Str(v) == IF v.kind = "str" THEN v.str ELSE "[" \o ReprItems(v.list) \o "]"

\* ScriptBaseWithConfig.lookup_connection_alias
lookup_connection_alias(table, u) ==
    IF u \in DOMAIN table THEN Str(table[u]) ELSE u

\* outside a run: the harness variables of the lookup specification
IdleRun ==
    /\ withConfig = TRUE
    /\ argv = <<>>
    /\ pc = "idle"
    /\ options = NoOptions
    /\ threshold = WARNING
    /\ return_code = 0
    /\ engine = "None"
    /\ scgi_url = UrlConfigured
    /\ exc = NoExc
    /\ raised = NoRaise
    /\ status = "running"
    /\ exit_code = NoneInt
    /\ steps = <<>>
    /\ out = <<>>

InitLookup ==
    /\ IdleRun
    /\ fatal_call = NoFatal
    /\ IdleMulti
    /\ IdleOption
    /\ connections \in Tables
    /\ url \in Names
    /\ looked = ""
    /\ lpc = "call"

\* one call of lookup_connection_alias(url)
LookupConnectionAlias ==
    /\ lpc = "call"
    /\ looked' = lookup_connection_alias(connections, url)
    /\ lpc' = "done"
    /\ UNCHANGED <<connections, url, runVars, fatal_call, multiVars, optionVars>>

NextLookup == LookupConnectionAlias

SpecLookup == InitLookup /\ [][NextLookup]_vars

\* ------------------------------------------- multi_connection_lookup
InitMulti ==
    /\ IdleRun
    /\ fatal_call = NoFatal
    /\ IdleOption
    /\ connections \in Tables
    /\ url \in Names
    /\ looked = ""
    /\ lpc = "idle"
    /\ val = <<>>
    /\ yielded = <<>>
    /\ lookups = 0
    /\ mpc = "get"

\* val = config.settings["CONNECTIONS"].get(url, default), then the
\* isinstance(val, list) test
GetConnections(default) ==
    /\ mpc = "get"
    /\ LET v == IF url \in DOMAIN connections THEN connections[url] ELSE default
       IN /\ val' = v
          /\ mpc' = IF v.kind = "list" THEN "list" ELSE "single"
    /\ UNCHANGED <<yielded, lookups, lookupVars, optionVars, runVars, fatal_call>>

MultiGetDefaultEmpty == GetConnections(ListVal(<<>>))

MultiGet == GetConnections(ListVal(<<url>>))

\* for v in val: yield self.lookup_connection_alias(v) -- one turn of the
\* loop; item is what is yielded for the entry, calls the lookups it took
YieldEntry(item, calls) ==
    /\ mpc = "list"
    /\ Len(yielded) < Len(val.list)
    /\ yielded' = Append(yielded, item)
    /\ lookups' = lookups + calls
    /\ UNCHANGED <<val, mpc, lookupVars, optionVars, runVars, fatal_call>>

MultiYieldEntryRaw == YieldEntry(val.list[Len(yielded) + 1], 0)

MultiYieldEntryTwice ==
    YieldEntry(
        lookup_connection_alias(connections,
            lookup_connection_alias(connections, val.list[Len(yielded) + 1])),
        2)

MultiYieldEntry ==
    YieldEntry(lookup_connection_alias(connections, val.list[Len(yielded) + 1]), 1)

\* the for loop is exhausted: the generator ends
MultiListEnd ==
    /\ mpc = "list"
    /\ Len(yielded) = Len(val.list)
    /\ mpc' = "done"
    /\ UNCHANGED <<val, yielded, lookups, lookupVars, optionVars, runVars, fatal_call>>

\* else: yield self.lookup_connection_alias(val), and the generator ends
YieldSingle(item, calls) ==
    /\ mpc = "single"
    /\ yielded' = Append(yielded, item)
    /\ lookups' = lookups + calls
    /\ mpc' = "done"
    /\ UNCHANGED <<val, lookupVars, optionVars, runVars, fatal_call>>

MultiYieldSingleRaw == YieldSingle(val.str, 0)

MultiYieldSingle == YieldSingle(lookup_connection_alias(connections, val.str), 1)

NextMulti ==
    \/ MultiGet
    \/ MultiYieldEntry
    \/ MultiListEnd
    \/ MultiYieldSingle

SpecMulti == InitMulti /\ [][NextMulti]_vars

\* a caller that iterates the generator to its end
SpecMultiFair == SpecMulti /\ WF_vars(NextMulti)

\* ------------------------------------------------- add_value_option
\* Strings are sequences of pieces of text here (option strings and
\* destinations character by character), so that startswith, replace and
\* += work on them as they do on Python strings; the empty string is <<>>.
ShortOpt == <<"-", "m">>
LongOpt == <<"-", "-", "o", "u", "t", "-", "m">>
Metavar == <<"M", "O", "D", "E">>
ExplicitDest == <<"m", "o", "d", "e">>
\* the positional arguments of a call: option strings, then the metavar
ArgLists ==
    {<<ShortOpt, LongOpt, Metavar>>, <<LongOpt, Metavar>>,
     <<LongOpt, ShortOpt, Metavar>>, <<ShortOpt, Metavar>>}
\* o.startswith("--")
IsLong(o) == Len(o) >= 2 /\ o[1] = "-" /\ o[2] = "-"

\* sq.replace(pat, rp): every occurrence, left to right, not overlapping
RECURSIVE Replace(_, _, _)
Replace(sq, pat, rp) ==
    IF Len(sq) < Len(pat) THEN sq
    ELSE IF SubSeq(sq, 1, Len(pat)) = pat
         THEN rp \o Replace(SubSeq(sq, Len(pat) + 1, Len(sq)), pat, rp)
         ELSE <<Head(sq)>> \o Replace(Tail(sq), pat, rp)

\* the keyword arguments a call may pass, with the values they take here
KwValues(k) ==
    CASE k = "dest" -> {ExplicitDest}
      [] k = "help" -> {<<"output mode">>}
      [] k = "default" -> {<<>>, <<"plain">>}
      [] k = "choices" -> {<<"plain", "json">>}
      [] k = "type" -> {<<"str">>}
KwKeys == {"dest", "help", "default", "choices", "type"}
\* every dict of keyword arguments: a function on some of the keys
KwArgs ==
    UNION {{kw \in [D -> UNION {KwValues(k) : k \in D}] :
              \A k \in D : kw[k] \in KwValues(k)} : D \in SUBSET KwKeys}

\* d[k] = v on a dict, and del d[k]
SetItem(d, k, v) == [x \in DOMAIN d \cup {k} |-> IF x = k THEN v ELSE d[x]]
DelItem(d, k) == [x \in DOMAIN d \ {k} |-> d[x]]

Registered(flags, kw) == [ok |-> TRUE, error |-> "", flags |-> flags, kwargs |-> kw]
Failed(err) == [ok |-> FALSE, error |-> err, flags |-> <<>>, kwargs |-> <<>>]

\* ScriptBase.add_value_option(*args, **kwargs), statement by statement:
\* each statement that indexes what is not there raises
add_value_option(args, kwargs) ==
    LET longs == SelectSeq(args, IsLong)
        kw1 == SetItem(kwargs, "metavar", args[Len(args)])
    IN
    IF "dest" \notin DOMAIN kw1 /\ longs = <<>>
    THEN Failed("IndexError")
    ELSE
    LET kw2 == IF "dest" \notin DOMAIN kw1
               THEN SetItem(kw1, "dest",
                        Replace(Replace(longs[1], <<"-", "-">>, <<>>),
                                <<"-">>, <<"_">>))
               ELSE kw1
        addsDefault == "default" \in DOMAIN kw2 /\ kw2["default"] # <<>>
    IN
    IF addsDefault /\ "help" \notin DOMAIN kw2
    THEN Failed("KeyError: help")
    ELSE
    LET kw3 == IF addsDefault
               THEN SetItem(kw2, "help",
                        kw2["help"] \o <<" [">> \o kw2["default"] \o <<"]">>)
               ELSE kw2
    IN
    IF "choices" \in DOMAIN kw3
    THEN IF "type" \in DOMAIN kw3
         THEN Registered(SubSeq(args, 1, Len(args) - 1), DelItem(kw3, "type"))
         ELSE Failed("KeyError: type")
    ELSE Registered(SubSeq(args, 1, Len(args) - 1), kw3)

InitOption ==
    /\ IdleRun
    /\ fatal_call = NoFatal
    /\ IdleLookup
    /\ IdleMulti
    /\ call \in {[args |-> a, kwargs |-> kw] : a \in ArgLists, kw \in KwArgs}
    /\ registered = <<>>
    /\ opc = "call"

\* one call of add_value_option
AddValueOption ==
    /\ opc = "call"
    /\ LET r == add_value_option(call.args, call.kwargs) IN
       /\ registered' = r
       /\ opc' = IF r.ok THEN "done" ELSE "raised"
    /\ UNCHANGED <<call, runVars, fatal_call, lookupVars, multiVars>>

NextOption == AddValueOption

SpecOption == InitOption /\ [][NextOption]_vars

\* ================================================================ claims
Terminated == pc = "done"
TotalTimeCalls == Count(steps, "log_total")
TotalTimeLines == Count(out, "Total time:")
Shutdowns == Count(steps, "shutdown")
ClassifySteps ==
    {"except LoggableError", "except KeyboardInterrupt", "except OSError"}
LifecycleSteps == {"url", "config", "engine", "mainloop"}
HarnessExitCodes == {EX_SOFTWARE, EX_TEMPFAIL, EX_IOERR}
Notices == {"traceback", "Aborted by CTRL-C!", "Broken pipe, exiting!"}
StepsIn(S) == {i \in 1..Len(steps) : steps[i] \in S}
OutIn(S) == {i \in 1..Len(out) : out[i] \in S}
VersionGiven == \E i \in 1..Len(argv) : argv[i] = TokVersion
\* a token no registered argument accepts (ScriptBase registers no --url)
Unrecognized(tok) ==
    tok = TokUnknown \/ (~withConfig /\ tok \in {TokUrl, TokUrlEmpty})
ParseFails == ~VersionGiven /\ \E i \in 1..Len(argv) : Unrecognized(argv[i])

\* C1 as stated: a terminated run whose option parsing did not complete
\* shows no total-time line, and every terminated run whose option parsing
\* completed shows exactly one.
C1_AsStated ==
    Terminated => TotalTimeLines = (IF options.parsed THEN 1 ELSE 0)

\* C1 amended: a run whose option parsing failed or was short-circuited
\* makes no total-time log call and shows no line; a terminated run whose
\* option parsing completed made exactly one total-time log call at
\* STD_LOG_LEVEL, whatever the subcommand did, and shows the line exactly
\* when the logging threshold lets STD_LOG_LEVEL through; no run shows more
\* than one line.
C1_TimingLog ==
    /\ TotalTimeLines <= TotalTimeCalls
    /\ TotalTimeCalls <= 1
    /\ ~options.parsed => TotalTimeCalls = 0
    /\ Terminated /\ options.parsed =>
         /\ TotalTimeCalls = 1
         /\ TotalTimeLines = (IF threshold <= STD_LOG_LEVEL THEN 1 ELSE 0)

\* a run that parsed its options, then failed with an exception nobody
\* classifies, and still showed its one total-time line
C1_Witness ==
    /\ Terminated
    /\ options.parsed
    /\ raised.exc = OtherException
    /\ status = "raised"
    /\ TotalTimeLines = 1

\* C2: the shutdown step runs at most once, has run exactly once when the
\* run is over, whatever the exit path, and after it the only step left is
\* the return code test: no subcommand and no classification step.
C2_FinalizeOnce ==
    /\ Shutdowns <= 1
    /\ Terminated => Shutdowns = 1
    /\ \A i \in StepsIn({"shutdown"}) :
         \A j \in (i + 1)..Len(steps) : steps[j] = "return_code"

\* a run the subcommand left with an unclassified exception, shut down once
C2_Witness ==
    /\ Terminated
    /\ raised = [exc |-> OtherException, at |-> "mainloop"]
    /\ status = "raised"
    /\ Shutdowns = 1

\* C3: a KeyboardInterrupt raised by the subcommand ends in exactly one
\* "Aborted by" notice, no stack trace, exit code EX_TEMPFAIL, and one
\* shutdown.
C3_Interrupt ==
    Terminated /\ raised = [exc |-> KeyboardInterrupt, at |-> "mainloop"] =>
        /\ Count(out, "Aborted by CTRL-C!") = 1
        /\ Count(out, "traceback") = 0
        /\ status = "exited"
        /\ exit_code = EX_TEMPFAIL
        /\ Shutdowns = 1

\* an interrupted subcommand that had set a return code of its own
C3_Witness ==
    /\ Terminated
    /\ raised = [exc |-> KeyboardInterrupt, at |-> "mainloop"]
    /\ return_code # 0
    /\ exit_code = EX_TEMPFAIL

\* C4: an OSError with errno EPIPE, raised by any step inside the try,
\* ends in exit code EX_IOERR with one short notice and no stack trace.
C4_BrokenPipe ==
    Terminated /\ raised.exc = OSError(EPIPE) =>
        /\ status = "exited"
        /\ exit_code = EX_IOERR
        /\ Count(out, "Broken pipe, exiting!") = 1
        /\ Count(out, "traceback") = 0

\* a broken pipe in the subcommand, ended with EX_IOERR
C4_Witness ==
    /\ Terminated
    /\ raised = [exc |-> OSError(EPIPE), at |-> "mainloop"]
    /\ exit_code = EX_IOERR

\* C5: an OSError with any other errno leaves run() as the same exception:
\* no exit code is assigned, no notice is printed, and shutdown has run.
C5_OtherOSError ==
    Terminated /\ raised.exc.type = "OSError" /\ raised.exc.errno # EPIPE =>
        /\ status = "raised"
        /\ exc = raised.exc
        /\ exit_code = NoneInt
        /\ exit_code \notin HarnessExitCodes
        /\ OutIn(Notices) = {}
        /\ Shutdowns = 1

\* an OSError other than a broken pipe, raised by the subcommand, that
\* left run()
C5_Witness ==
    /\ Terminated
    /\ raised.at = "mainloop"
    /\ raised.exc.type = "OSError"
    /\ raised.exc.errno \in OtherErrnos
    /\ status = "raised"

\* C6: a LoggableError raised inside the try is caught by one except
\* clause, one stack trace is printed, and the exit code is EX_SOFTWARE.
C6_DomainError ==
    Terminated /\ raised.exc = LoggableError =>
        /\ Cardinality(StepsIn(ClassifySteps)) = 1
        /\ Count(steps, "except LoggableError") = 1
        /\ Count(out, "traceback") = 1
        /\ status = "exited"
        /\ exit_code = EX_SOFTWARE

\* a LoggableError raised by the subcommand, ended with EX_SOFTWARE
C6_Witness ==
    /\ Terminated
    /\ raised = [exc |-> LoggableError, at |-> "mainloop"]
    /\ exit_code = EX_SOFTWARE
    /\ Count(out, "traceback") = 1

\* C7: when the subcommand returned normally the exit code is its return
\* code if nonzero and 0 otherwise, and the process is still running (no
\* exit code applied) until the shutdown step has run.
C7_ReturnCode ==
    /\ Terminated /\ Count(steps, "mainloop") = 1 /\ raised = NoRaise =>
         /\ exit_code = (IF return_code # 0 THEN return_code ELSE 0)
         /\ status = (IF return_code # 0 THEN "exited" ELSE "returned")
         /\ Index(steps, "shutdown") > 0
         /\ Index(steps, "return_code") > Index(steps, "shutdown")
    /\ Shutdowns = 0 => status = "running" /\ exit_code = NoneInt

\* a successful run that ends with the subcommand's own nonzero code
C7_Witness ==
    /\ Terminated
    /\ raised = NoRaise
    /\ Count(steps, "mainloop") = 1
    /\ return_code = MaxReturnCode
    /\ status = "exited"
    /\ exit_code = MaxReturnCode

\* C8: with --version on the command line, the version is printed and the
\* run ends with exit code 0 from inside option parsing: options stay
\* unset, no configuration is loaded, no engine is constructed, the
\* subcommand never runs, and no total-time line is logged.
C8_VersionShortCircuit ==
    VersionGiven =>
        /\ StepsIn(LifecycleSteps) = {}
        /\ ~options.parsed
        /\ engine = "None"
        /\ TotalTimeCalls = 0
        /\ TotalTimeLines = 0
        /\ pc # "get_options" => raised = [exc |-> SystemExit(0), at |-> "get_options"]
        /\ Terminated =>
             /\ status = "exited"
             /\ exit_code = 0
             /\ Count(out, "version") = 1

\* --version after a logging flag, in a tool with configuration: ended 0
C8_Witness ==
    /\ Terminated
    /\ withConfig
    /\ argv = <<TokDebug, TokVersion>>
    /\ exit_code = 0
    /\ Count(out, "version") = 1

\* C9: a command line the parser rejects ends with the parser's exit code,
\* which is none of the harness's codes; no except clause classifies it,
\* and configuration loading, engine construction and the subcommand never
\* run.
C9_ParseFailure ==
    ParseFails =>
        /\ StepsIn(LifecycleSteps) = {}
        /\ StepsIn(ClassifySteps) = {}
        /\ engine = "None"
        /\ ~options.parsed
        /\ Terminated =>
             /\ status = "exited"
             /\ exit_code = EX_USAGE_ARGPARSE
             /\ exit_code \notin HarnessExitCodes

\* an unknown flag after a valid one, in a tool with configuration
C9_Witness ==
    /\ Terminated
    /\ withConfig
    /\ argv = <<TokUrl, TokUnknown>>
    /\ exit_code = EX_USAGE_ARGPARSE

\* C10 as stated: the result of the lookup is the stored value when the
\* token is a key whose value is a single string, and the token itself in
\* every other case (not a key, or a key whose value is a list).
C10_AsStated ==
    lpc = "done" =>
        looked = (IF url \in DOMAIN connections /\ connections[url].kind = "str"
                  THEN connections[url].str
                  ELSE url)

\* ---------------------------------------------- multi_connection_lookup
MultiDone == mpc = "done"
IsKey(x) == x \in DOMAIN connections
StrAlias == IsKey(url) /\ connections[url].kind = "str"
ListAlias == IsKey(url) /\ connections[url].kind = "list"

\* C11 as stated: when the alias of the token is a single string s, the
\* lookup of the token is s and the generator yields exactly one element,
\* s, whether or not s is itself an alias.
C11_AsStated ==
    MultiDone /\ StrAlias =>
        /\ lookup_connection_alias(connections, url) = connections[url].str
        /\ yielded = <<connections[url].str>>

\* C11 amended: when the alias of the token is a single string s, the
\* lookup of the token is s, and the generator yields exactly one element:
\* the lookup of s, which is s only when s is not itself an alias and the
\* string form of the alias of s otherwise.
C11_SingleString ==
    MultiDone /\ StrAlias =>
        LET s == connections[url].str IN
        /\ lookup_connection_alias(connections, url) = s
        /\ Len(yielded) = 1
        /\ yielded[1] = (IF IsKey(s) THEN Str(connections[s]) ELSE s)

\* an alias whose value is the name of another alias: the generator
\* yielded the endpoint of the second one
C11_Witness ==
    /\ MultiDone
    /\ url = "home"
    /\ connections = [home |-> StrVal("seedbox"), seedbox |-> StrVal("10.0.0.1:80")]
    /\ yielded = <<"10.0.0.1:80">>

\* C12: when the alias of the token is a list, the generator yields the
\* lookups of the list's entries, one per entry, in the order of the list:
\* at every moment what was yielded is that for a prefix of the list, and
\* at the end for the whole list (nothing for an empty list).
C12_ListAlias ==
    ListAlias /\ mpc \in {"list", "done"} =>
        LET l == connections[url].list IN
        /\ Len(yielded) <= Len(l)
        /\ \A i \in 1..Len(yielded) :
             yielded[i] = lookup_connection_alias(connections, l[i])
        /\ MultiDone => Len(yielded) = Len(l)

\* a list of two entries, the first of them an alias, iterated to the end
C12_Witness ==
    /\ MultiDone
    /\ url = "seedbox"
    /\ connections = [home |-> StrVal("10.0.0.1:80"),
                      seedbox |-> ListVal(<<"home", "seedbox">>)]
    /\ Len(yielded) = 2
    /\ yielded[1] = "10.0.0.1:80"

\* C13: when the token is no alias, the generator yields exactly one
\* element, the token.
C13_UnknownToken ==
    MultiDone /\ ~IsKey(url) => yielded = <<url>>

\* a token that is no alias, looked up in a table that has aliases
C13_Witness ==
    /\ MultiDone
    /\ url = "10.0.0.1:80"
    /\ DOMAIN connections = AliasNames
    /\ yielded = <<"10.0.0.1:80">>

\* the number of elements the generator has to yield
ExpectedYields == IF ListAlias THEN Len(connections[url].list) ELSE 1

\* C19: a generator iterated by its caller ends, for every table, also one
\* whose aliases name themselves or each other; it makes exactly one
\* lookup per element yielded, and yields 1 element for a value that is no
\* list and len(list) elements for a list.
C19_Terminates ==
    /\ <>MultiDone
    /\ [](/\ lookups = Len(yielded)
          /\ Len(yielded) <= ExpectedYields
          /\ MultiDone => Len(yielded) = ExpectedYields)

\* two aliases that name each other, iterated to the end
C19_Witness ==
    /\ MultiDone
    /\ url = "home"
    /\ connections = [home |-> ListVal(<<"seedbox", "home">>),
                      seedbox |-> ListVal(<<"home">>)]
    /\ lookups = 2
    /\ Len(yielded) = 2

\* ------------------------------------------- options of a run, again
Max(S) == CHOOSE x \in S : \A y \in S : y <= x
UrlPositions == {i \in 1..Len(argv) : argv[i] \in {TokUrl, TokUrlEmpty}}
UrlSupplied == UrlPositions # {}
\* the value of the --url given last
SuppliedUrl == IF argv[Max(UrlPositions)] = TokUrl THEN UrlGiven ELSE ""
EngineStepReached == pc = "engine" \/ Count(steps, "engine") > 0

\* C14 as stated: in a tool with configuration, the endpoint in effect
\* when the engine is constructed is the value of --url when --url was
\* supplied, and the configured endpoint when it was not.
C14_AsStated ==
    withConfig /\ EngineStepReached =>
        scgi_url = (IF UrlSupplied THEN SuppliedUrl ELSE UrlConfigured)

\* C14 amended: in a tool with configuration, the endpoint in effect when
\* the engine is constructed is the value of --url when --url was supplied
\* with a non-empty value, and the configured endpoint when --url was not
\* supplied or its value was empty.
C14_UrlOverride ==
    withConfig /\ EngineStepReached =>
        scgi_url = (IF UrlSupplied /\ SuppliedUrl # "" THEN SuppliedUrl
                    ELSE UrlConfigured)

\* an engine constructed after --url gave another endpoint
C14_Witness ==
    /\ withConfig
    /\ argv = <<TokUrlEmpty, TokUrl>>
    /\ engine = "RtorrentEngine"
    /\ scgi_url = UrlGiven

IsLifecycleStep(x) ==
    x \in {"parse", "parse_version", "parse_error", "url", "config", "engine",
           "mainloop"}
LifecycleOrder == <<"parse", "url", "config", "engine", "mainloop">>
IsPrefix(a, b) == Len(a) <= Len(b) /\ \A i \in 1..Len(a) : a[i] = b[i]
\* the steps a failure at a position of run() leaves as the last one
FailedStep(at) ==
    IF at = "get_options" THEN {"parse_version", "parse_error"} ELSE {at}

\* C15: in a tool with configuration the steps of a run are taken in the
\* order parse, URL override, configuration, engine, subcommand, each at
\* most once; the subcommand starts only with an engine constructed and
\* the configuration loaded without failure; and the step that fails is the
\* last of them to run.
C15_LifecycleOrder ==
    withConfig =>
        LET life == SelectSeq(steps, IsLifecycleStep) IN
        /\ \/ IsPrefix(life, LifecycleOrder)
           \/ life \in {<<"parse_version">>, <<"parse_error">>}
        /\ pc = "mainloop" \/ Count(steps, "mainloop") > 0 =>
             /\ engine = "RtorrentEngine"
             /\ Count(steps, "config") = 1
             /\ raised.at \in {"none", "mainloop"}
        /\ raised # NoRaise =>
             /\ life # <<>>
             /\ life[Len(life)] \in FailedStep(raised.at)

\* a run of a tool with configuration that reached its subcommand
C15_Witness ==
    /\ withConfig
    /\ Terminated
    /\ SelectSeq(steps, IsLifecycleStep) = LifecycleOrder
    /\ raised = NoRaise

LevelPositions == {i \in 1..Len(argv) : argv[i] \in LevelTokens}
\* quiet/cron -> critical, debug -> debug, verbose -> info
LevelNamed(tok) ==
    IF tok = TokQuiet THEN CRITICAL ELSE IF tok = TokDebug THEN DEBUG ELSE INFO
\* the level of the logging flag given last
ResolvedLevel == LevelNamed(argv[Max(LevelPositions)])

\* C16: the step that parses the options successfully leaves the
\* threshold at the level of the resolved logging flag when one was given
\* and as it was before when none was given; no later step of the run
\* changes the threshold.
C16_Threshold ==
    [][/\ pc = "get_options" /\ options'.parsed =>
            threshold' = (IF LevelPositions # {} THEN ResolvedLevel
                          ELSE threshold)
       /\ pc # "get_options" => threshold' = threshold]_vars

\* --debug parsed in a process that started at another threshold
C16_Witness ==
    /\ options.parsed
    /\ argv = <<TokPositional, TokDebug>>
    /\ threshold = DEBUG
    /\ Count(steps, "mainloop") = 1

TwoLevelFlags ==
    Cardinality({argv[i] : i \in LevelPositions}) > 1
OtherwiseValid ==
    ~VersionGiven /\ \A i \in 1..Len(argv) : ~Unrecognized(argv[i])

\* C17 as stated: a command line with two different logging flags is not
\* parsed successfully.
C17_AsStated == TwoLevelFlags => ~options.parsed

\* C17 amended: the three logging flags share one destination and the
\* parser does not exclude them from each other: a command line that
\* supplies two different ones and is otherwise valid is parsed
\* successfully, and the flag given last decides the logging level.
C17_LastFlagWins ==
    TwoLevelFlags /\ OtherwiseValid /\ pc # "get_options" =>
        /\ options.parsed
        /\ options.log_level = ResolvedLevel

\* --quiet then --verbose: parsed, at the level of --verbose
C17_Witness ==
    /\ argv = <<TokQuiet, TokVerbose>>
    /\ options.parsed
    /\ options.log_level = INFO
    /\ threshold = INFO

\* C20: a call of fatal() logs its message; it returns to its caller
\* exactly when an exception was passed and debug logging is enabled, and
\* in every other case (always when no exception was passed) it ends the
\* process with EX_SOFTWARE.
C20_Fatal ==
    fatal_call.called =>
        /\ Count(out, "FATAL") = 1
        /\ fatal_call.outcome =
             (IF fatal_call.with_exc /\ threshold <= DEBUG THEN "returned"
              ELSE "exit")
        /\ ~fatal_call.with_exc => fatal_call.outcome = "exit"
        /\ fatal_call.outcome = "exit" =>
             /\ raised.exc = SystemExit(EX_SOFTWARE)
             /\ Terminated => status = "exited" /\ exit_code = EX_SOFTWARE
        /\ fatal_call.outcome = "returned" => raised.exc \in Reportable

\* fatal() called with an exception under --debug: it returned, and the
\* exception left the subcommand
C20_Witness ==
    /\ fatal_call = [called |-> TRUE, with_exc |-> TRUE, outcome |-> "returned"]
    /\ argv = <<TokDebug>>
    /\ raised = [exc |-> OtherException, at |-> "mainloop"]
    /\ Terminated

\* ---------------------------------------------------- add_value_option
HasLong == \E i \in 1..Len(call.args) : IsLong(call.args[i])
\* a call that names its destination or a long option, and has a help text
WellFormedCall ==
    /\ "help" \in DOMAIN call.kwargs
    /\ HasLong \/ "dest" \in DOMAIN call.kwargs

\* C18 as stated: every well-formed registration that provides choices,
\* with or without a type, is registered, with the choices and without a
\* type.
C18_AsStated ==
    opc # "call" /\ WellFormedCall /\ "choices" \in DOMAIN call.kwargs =>
        /\ opc = "done"
        /\ registered.ok
        /\ "choices" \in DOMAIN registered.kwargs
        /\ registered.kwargs["choices"] = call.kwargs["choices"]
        /\ "type" \notin DOMAIN registered.kwargs

====
